---- MODULE Spec2Model ----
(***************************************************************************)
(* Verification model of the lark type-inference core:                    *)
(*   - permission kind inference (kind_inference.rs, `inference`), a      *)
(*     datafrog fixpoint over perm_less / perm_condition / borrow / owned *)
(*   - TypeCheckResults (type-check/src/lib.rs)                           *)
(*   - a type-check session: the unification table and the suspended      *)
(*     operations held by TypeChecker (type-check/src/lib.rs)             *)
(* The fact slices of inference() are modelled as sets: Relation::from    *)
(* sorts and deduplicates them and the Node component is dropped.         *)
(***************************************************************************)
EXTENDS Integers, Sequences, FiniteSets, TLC

VARIABLES
    \* ---- kind inference (kind_inference.rs) ----
    perm_less_base,     \* input facts (Pa, Pb); the Node component is dropped at line 30
    perm_less_if_base,  \* input facts (Pc, Pa, Pb); Node dropped at line 37
    perm_less,          \* datafrog Variable<(Perm, Perm)>
    perm_condition,     \* datafrog Variable<(Perm, (Perm, Perm))>
    borrow,             \* datafrog Variable<(Perm, ())>
    owned,              \* datafrog Variable<(Perm, ())>
    set,                \* the returned FxIndexMap<PermVar, PermKind>
    kpc,                \* position inside inference(): "loop" | "done"
    rounds,             \* number of loop bodies executed
    pending,            \* from_join statements of this loop body still to run
    reordered,          \* history: a statement ran before an earlier one
    \* ---- TypeCheckResults (type-check/src/lib.rs) ----
    types,              \* BTreeMap<hir::MetaIndex, Ty<F>>
    entities,           \* BTreeMap<hir::Identifier, Entity>
    errors,             \* Vec<Error>, each an Error { location }
    call,               \* the last method called on the results, its
                        \* argument and what it returned
    \* ---- TypeChecker session (type-check/src/lib.rs, lines 42-73) ----
    nvars,              \* inference variables allocated in `unify`
    parent,             \* `unify`: union-find parent of each variable
    value,              \* `unify`: the Known value held at a root, or "None"
    nops,               \* operations ever inserted into ops_arena
    ops_arena,          \* Arena of suspended operations, by OpIndex
    ops_blocked,        \* FxIndexMap<InferVar, Vec<OpIndex>>
    ready,              \* operations made ready by a resolution, in order
    tpc,                \* "idle" | "walk" | "done"
    cur,                \* the node of the function body the walk is at,
                        \* NumNodes + 1 once the walk has finished
    checked,            \* how the walk checked each node it has handled
    dropped,            \* history: the operations the session end dropped
    invoked,            \* history: the operations invoked, in order
    unified             \* history: the pairs {a, b} whose unify succeeded

kvars == <<perm_less_base, perm_less_if_base, perm_less, perm_condition,
           borrow, owned, set, kpc, rounds, pending, reordered>>

rvars == <<types, entities, errors>>

qvars == <<call>>

tvars == <<nvars, parent, value, nops, ops_arena, ops_blocked, ready, tpc,
           cur, checked, dropped, invoked, unified>>

vars == <<kvars, rvars, qvars, tvars>>

----------------------------------------------------------------------------
(* Bounds of the model *)

NumPermVars == 2
MaxFacts == 2
NumNodes == 2
NumEntities == 2
MaxErrors == 2
MaxVars == 3
MaxOps == 2
\* variables and operations a session allocates, taken together
MaxAlloc == 4

----------------------------------------------------------------------------
(* Permissions.  A Perm is an interned key; untern gives its PermData.     *)

PermVar == 1..NumPermVars

\* PermData::Inferred(v) is interned as the key v.
perm_borrow == NumPermVars + 1
perm_own == NumPermVars + 2
perm_share == NumPermVars + 3
perm_placeholder == NumPermVars + 4

Perm == 1..(NumPermVars + 4)

untern(p) ==
    IF p \in PermVar THEN [tag |-> "Inferred", var |-> p, kind |-> "None"]
    ELSE IF p = perm_borrow THEN [tag |-> "Known", var |-> 0, kind |-> "Borrow"]
    ELSE IF p = perm_own THEN [tag |-> "Known", var |-> 0, kind |-> "Own"]
    ELSE IF p = perm_share THEN [tag |-> "Known", var |-> 0, kind |-> "Share"]
    ELSE [tag |-> "Placeholder", var |-> 0, kind |-> "None"]

----------------------------------------------------------------------------
(* datafrog: a Variable holds three tuple sets.  insert() adds to to_add;  *)
(* changed() merges recent into stable and makes to_add \ stable the new   *)
(* recent; from_join joins recent x stable, stable x recent and            *)
(* recent x recent of its two inputs on their first component.             *)

NewVariable == [stable |-> {}, recent |-> {}, to_add |-> {}]

Insert(v, rel) == [v EXCEPT !.to_add = @ \cup rel]

\* a changed() that does not take the stable tuples out of the new recent
VarChanged_NoDedup(v) ==
    [stable |-> v.stable \cup v.recent, recent |-> v.to_add, to_add |-> {}]

\* a changed() that replaces the stable tuples by the recent ones
VarChanged_DropStable(v) ==
    [stable |-> v.recent, recent |-> v.to_add \ v.recent, to_add |-> {}]

VarChanged(v) ==
    LET st == v.stable \cup v.recent
    IN  [stable |-> st, recent |-> v.to_add \ st, to_add |-> {}]

\* join_helper: the pairs of tuples of r1 and r2 that agree on the key
JoinHelper(r1, r2) == { pr \in r1 \X r2 : pr[1][1] = pr[2][1] }

\* a join that forgets the tuples that became stable in earlier rounds
JoinInto_RecentOnly(input1, input2) ==
    JoinHelper(input1.recent, input2.recent)

\* join_into: the matches a from_join of input1 and input2 sees this round
JoinInto(input1, input2) ==
    JoinHelper(input1.recent, input2.stable)
        \cup JoinHelper(input1.stable, input2.recent)
        \cup JoinHelper(input1.recent, input2.recent)

\* Variable::complete(): the final relation
Complete(v) == v.stable

----------------------------------------------------------------------------
(* inference(): the three rules of the loop body, lines 57-68 *)

\* the conditional edges activated without looking at the guard
RulePermLess_Unguarded(cond, bor) ==
    { <<t[2][1], t[2][2]>> : t \in cond.recent \cup cond.stable }

\* perm_less(Pa, Pb) :- perm_condition(Pc, Pa, Pb), borrow(Pc).
RulePermLess(cond, bor) ==
    { <<pr[1][2][1], pr[1][2][2]>> : pr \in JoinInto(cond, bor) }

\* ownership pushed against the edge: owned(Pa) :- perm_less(Pa, Pb), owned(Pb)
RuleOwned_Backwards(less, own) ==
    { <<l[1], <<>>>> :
        l \in { m \in less.recent \cup less.stable :
                  <<m[2], <<>>>> \in own.recent \cup own.stable } }

\* at-least-borrow pushed against the edge:
\* borrow(Pa) :- perm_less(Pa, Pb), borrow(Pb)
RuleBorrow_Backwards(less, bor) ==
    { <<l[1], <<>>>> :
        l \in { m \in less.recent \cup less.stable :
                  <<m[2], <<>>>> \in bor.recent \cup bor.stable } }

\* borrow(Pb) :- perm_less(Pa, Pb), borrow(Pa).
RuleBorrow(less, bor) ==
    { <<pr[1][2], <<>>>> : pr \in JoinInto(less, bor) }

\* owned(Pb) :- perm_less(Pa, Pb), owned(Pa).
RuleOwned(less, own) ==
    { <<pr[1][2], <<>>>> : pr \in JoinInto(less, own) }

\* a filter_map that lets every permission through
FilterMap_All(elements, kind) ==
    { <<untern(t[1]).var, kind>> : t \in elements }

\* filter_map of lines 80-83 / 92-95: keep the inferred variables
FilterMap(elements, kind) ==
    { <<untern(t[1]).var, kind>> :
        t \in { u \in elements : untern(u[1]).tag = "Inferred" } }

EmptyMap == [ k \in {} |-> "None" ]

\* FxIndexMap::extend: later pairs overwrite earlier entries of the same key
Extend(m, pairs) ==
    [ k \in (DOMAIN m) \cup { p[1] : p \in pairs } |->
        IF \E p \in pairs : p[1] = k
        THEN (CHOOSE p \in pairs : p[1] = k)[2]
        ELSE m[k] ]

\* the two extends in the other order: Borrow written over Own
Classify_BorrowLast(borrowRel, ownedRel) ==
    Extend(Extend(EmptyMap, FilterMap(ownedRel, "Own")),
           FilterMap(borrowRel, "Borrow"))

\* a classification that writes Share for every other variable
Classify_ShareExplicit(borrowRel, ownedRel) ==
    LET m == Extend(Extend(EmptyMap, FilterMap(borrowRel, "Borrow")),
                    FilterMap(ownedRel, "Own"))
    IN  Extend(m, { <<v, "Share">> : v \in PermVar \ DOMAIN m })

\* lines 73-98: borrow entries first, then owned entries on top of them
Classify(borrowRel, ownedRel) ==
    Extend(Extend(EmptyMap, FilterMap(borrowRel, "Borrow")),
           FilterMap(ownedRel, "Own"))

\* borrow seeded with the constant Borrow alone
Seed_BorrowOnly(base, cond) ==
    [ perm_less |-> Insert(NewVariable, base),
      perm_condition |-> Insert(NewVariable,
          { <<t[1], <<t[2], t[3]>>>> : t \in cond }),
      borrow |-> Insert(NewVariable, { <<perm_borrow, <<>>>> }),
      owned |-> Insert(NewVariable, { <<perm_own, <<>>>> }) ]

\* lines 24-55: the four variables as seeded before the loop
Seed(base, cond) ==
    [ perm_less |-> Insert(NewVariable, base),
      perm_condition |-> Insert(NewVariable,
          { <<t[1], <<t[2], t[3]>>>> : t \in cond }),
      borrow |-> Insert(NewVariable,
          { <<perm_borrow, <<>>>>, <<perm_own, <<>>>> }),
      owned |-> Insert(NewVariable, { <<perm_own, <<>>>> }) ]

\* iteration.changed(): every variable is advanced ...
Changed(st) ==
    [ perm_less |-> VarChanged(st.perm_less),
      perm_condition |-> VarChanged(st.perm_condition),
      borrow |-> VarChanged(st.borrow),
      owned |-> VarChanged(st.owned) ]

\* ... and the result is true if any of them has recent tuples
AnyRecent(st) ==
    \/ st.perm_less.recent # {}
    \/ st.perm_condition.recent # {}
    \/ st.borrow.recent # {}
    \/ st.owned.recent # {}

\* lines 58-67: the loop body; each from_join inserts into its output
Body(st) ==
    [ perm_less |-> Insert(st.perm_less,
          RulePermLess(st.perm_condition, st.borrow)),
      perm_condition |-> st.perm_condition,
      borrow |-> Insert(st.borrow, RuleBorrow(st.perm_less, st.borrow)),
      owned |-> Insert(st.owned, RuleOwned(st.perm_less, st.owned)) ]

\* lines 57-68 run to the end
RECURSIVE RunLoop(_)
RunLoop(st) ==
    LET c == Changed(st)
    IN  IF AnyRecent(c) THEN RunLoop(Body(c)) ELSE c

\* the whole of inference() as a function of its two fact slices
inference(base, cond) ==
    LET f == RunLoop(Seed(base, cond))
    IN  Classify(Complete(f.borrow), Complete(f.owned))

----------------------------------------------------------------------------
(* TypeCheckResults, lib.rs lines 200-253 *)

MetaIndex == 1..NumNodes
Identifier == 1..NumNodes
Entity == 1..NumEntities
\* the types a node can get; "Error" is the error-sentinel type
Ty == {"Bool", "Int", "Error"}

\* BTreeMap::insert: the entry of key k becomes v, whatever it was
MapInsert(m, k, v) ==
    [ x \in (DOMAIN m) \cup {k} |-> IF x = k THEN v ELSE m[x] ]

\* Default for TypeCheckResults: three empty collections
RDefault ==
    /\ types = <<>>
    /\ entities = <<>>
    /\ errors = <<>>

record_entity(index, entity) ==
    /\ entities' = MapInsert(entities, index, entity)
    /\ UNCHANGED <<types, errors>>

record_ty(index, ty) ==
    /\ types' = MapInsert(types, index, ty)
    /\ UNCHANGED <<entities, errors>>

\* an error pushed at the front of the list
record_error_Front(location) ==
    /\ errors' = <<[location |-> location]>> \o errors
    /\ UNCHANGED <<types, entities>>

record_error(location) ==
    /\ errors' = Append(errors, [location |-> location])
    /\ UNCHANGED <<types, entities>>

\* a lookup that answers the error type for a node without an entry
ty_OrError(index) ==
    IF index \in DOMAIN types THEN types[index] ELSE "Error"

\* ty(index): `self.types[&index]`; indexing a BTreeMap with a key it does
\* not hold panics
ty(index) ==
    IF index \in DOMAIN types THEN types[index] ELSE "panic"

\* no method has been called on the results
NoCall == call = [op |-> "none", index |-> 0, out |-> "none"]

Called(op, index, out) == call' = [op |-> op, index |-> index, out |-> out]

----------------------------------------------------------------------------
(* The unification table and the suspended operations of a TypeChecker      *)
(* (fields at lib.rs lines 56-66; their behaviour as specified for the      *)
(* Unification Table and the Suspended-Operation Arena & Scheduler).        *)

InferVar == 1..MaxVars
OpIndex == 1..MaxOps
\* the Known base types a variable can be resolved to
BaseKnown == {"Bool", "Int"}

\* an operand of equate_types: an inference variable or a Known type
TyVar(v) == [known |-> FALSE, var |-> v, val |-> "None"]
TyKnown(k) == [known |-> TRUE, var |-> 0, val |-> k]

Allocated == 1..nvars

RECURSIVE Find(_, _)
Find(par, v) == IF par[v] = v THEN v ELSE Find(par, par[v])

\* the variables from v up to and including its root
RECURSIVE Path(_, _)
Path(par, v) == IF par[v] = v THEN {v} ELSE {v} \cup Path(par, par[v])

resolveIn(par, valf, v) == valf[Find(par, v)]

\* resolve(v): the value known for v's class, or "None"
resolve(v) == resolveIn(parent, value, v)

OperandValue(par, valf, x) ==
    IF x.known THEN x.val ELSE resolveIn(par, valf, x.var)

\* a union that relinks only the variables named, not their roots
OperandPath_VarOnly(par, x) == IF x.known THEN {} ELSE {x.var}

\* the variables a merge relinks for operand x: the path from x to its root
OperandPath(par, x) == IF x.known THEN {} ELSE Path(par, x.var)

\* the table after merging x and y, whatever values they carry: every
\* variable on the two paths points at the root, which alone holds the value
Merge(par, valf, x, y) ==
    LET vx == OperandValue(par, valf, x)
        vy == OperandValue(par, valf, y)
        v == IF vy # "None" THEN vy ELSE vx
        root == IF ~y.known THEN Find(par, y.var)
                ELSE IF ~x.known THEN Find(par, x.var) ELSE 0
        touched == OperandPath(par, x) \cup OperandPath(par, y)
    IN  [ parent |-> [ w \in DOMAIN par |->
                         IF w \in touched THEN root ELSE par[w] ],
          value |-> [ w \in DOMAIN valf |->
                         IF w = root THEN v
                         ELSE IF w \in touched THEN "None" ELSE valf[w] ] ]

\* a unify that merges first and finds the mismatch afterwards
unify_MergeFirst(par, valf, x, y) ==
    LET vx == OperandValue(par, valf, x)
        vy == OperandValue(par, valf, y)
        m == Merge(par, valf, x, y)
    IN  [ ok |-> ~(vx # "None" /\ vy # "None" /\ vx # vy),
          parent |-> m.parent, value |-> m.value ]

\* unify: TypeMismatch and no mutation when both sides carry different Known
\* values; otherwise the classes are merged (paths compressed) and the Known
\* value, if any, is kept at the root
unify(par, valf, x, y) ==
    LET vx == OperandValue(par, valf, x)
        vy == OperandValue(par, valf, y)
    IN  IF vx # "None" /\ vy # "None" /\ vx # vy
        THEN [ ok |-> FALSE, parent |-> par, value |-> valf ]
        ELSE LET m == Merge(par, valf, x, y)
             IN  [ ok |-> TRUE, parent |-> m.parent, value |-> m.value ]

\* the ready entries for the variables ws, lowest variable first, each
\* variable's blocked list in insertion order
RECURSIVE Triggered(_, _)
Triggered(ws, blocked) ==
    IF ws = {} THEN <<>>
    ELSE LET w == CHOOSE u \in ws : \A t \in ws : u <= t
         IN  [ i \in 1..Len(blocked[w]) |-> [op |-> blocked[w][i], var |-> w] ]
                 \o Triggered(ws \ {w}, blocked)

\* a scheduler that takes the operation made ready last
NextReady_Last(q) == [ entry |-> q[Len(q)], rest |-> SubSeq(q, 1, Len(q) - 1) ]

\* the scheduler takes the operation at the head of the ready queue
NextReady(q) == [ entry |-> Head(q), rest |-> Tail(q) ]

\* an invoked operation left in the arena
ArenaRemove_Keep(arena, idx) == arena

\* Arena::remove: the operation is taken out of the arena when it is invoked
ArenaRemove(arena, idx) == [ i \in (DOMAIN arena) \ {idx} |-> arena[i] ]

\* the guard against resuming a consumed OpIndex: it is still in the arena
IsLive(arena, idx) == idx \in DOMAIN arena

\* a least_upper_bound that answers the type of the true arm when the arms
\* have no upper bound
least_upper_bound_FirstArm(true_ty, false_ty) ==
    IF true_ty = false_ty THEN [ok |-> TRUE, ty |-> true_ty]
    ELSE IF "Error" \in {true_ty, false_ty} THEN [ok |-> TRUE, ty |-> "Error"]
    ELSE [ok |-> FALSE, ty |-> true_ty]

\* least_upper_bound(if_expression, true_ty, false_ty): the common type of
\* the two arms; an arm that already is the error sentinel gives the
\* sentinel without a new error; two different types have no upper bound:
\* the caller reports an error at if_expression and gets the sentinel
least_upper_bound(true_ty, false_ty) ==
    IF true_ty = false_ty THEN [ok |-> TRUE, ty |-> true_ty]
    ELSE IF "Error" \in {true_ty, false_ty} THEN [ok |-> TRUE, ty |-> "Error"]
    ELSE [ok |-> FALSE, ty |-> "Error"]

\* session state outside a type-check session
TIdle ==
    /\ nvars = 0
    /\ parent = [ v \in InferVar |-> v ]
    /\ value = [ v \in InferVar |-> "None" ]
    /\ nops = 0
    /\ ops_arena = <<>>
    /\ ops_blocked = [ v \in InferVar |-> <<>> ]
    /\ ready = <<>>
    /\ tpc = "idle"
    /\ cur = 1
    /\ checked = <<>>
    /\ dropped = {}
    /\ invoked = <<>>
    /\ unified = {}

----------------------------------------------------------------------------
(* Inputs of inference() *)

Edges == Perm \X Perm
CondEdges == Perm \X Perm \X Perm

RECURSIVE SubsetsUpTo(_, _)
SubsetsUpTo(S, k) ==
    IF k <= 0 THEN {{}}
    ELSE LET prev == SubsetsUpTo(S, k - 1)
         IN  prev \cup { s \cup {x} : s \in prev, x \in S }

\* a pass after the first needs a tuple derived in the pass before it: an
\* edge of a conditional fact, or the target of a fact entering borrow or
\* owned.  That allows 1 + 3 * MaxFacts passes; the counter stops one above.
MaxRounds == 3 * MaxFacts + 2

KState ==
    [ perm_less |-> perm_less, perm_condition |-> perm_condition,
      borrow |-> borrow, owned |-> owned ]

\* inference() is entered with some fact slices; the loop is about to start
KInit ==
    /\ perm_less_base \in SubsetsUpTo(Edges, MaxFacts)
    /\ perm_less_if_base \in
          SubsetsUpTo(CondEdges, MaxFacts - Cardinality(perm_less_base))
    /\ LET st == Seed(perm_less_base, perm_less_if_base)
       IN  /\ perm_less = st.perm_less
           /\ perm_condition = st.perm_condition
           /\ borrow = st.borrow
           /\ owned = st.owned
    /\ set = EmptyMap
    /\ kpc = "loop"
    /\ rounds = 0
    /\ pending = {}
    /\ reordered = FALSE
    /\ RDefault
    /\ NoCall
    /\ TIdle

\* one pass of `while iteration.changed() { ... }` whose test is true
\* (rounds counts the passes and stops counting at MaxRounds)
LoopBody ==
    /\ kpc = "loop" /\ pending = {}
    /\ LET c == Changed(KState)
       IN  /\ AnyRecent(c)
           /\ LET n == Body(c)
              IN  /\ perm_less' = n.perm_less
                  /\ perm_condition' = n.perm_condition
                  /\ borrow' = n.borrow
                  /\ owned' = n.owned
    /\ rounds' = IF rounds < MaxRounds THEN rounds + 1 ELSE rounds
    /\ UNCHANGED <<perm_less_base, perm_less_if_base, set, kpc, pending,
                   reordered>>
    /\ UNCHANGED <<rvars, qvars, tvars>>

\* the test is false: complete() both relations and build the map
LoopExit ==
    /\ kpc = "loop" /\ pending = {}
    /\ LET c == Changed(KState)
       IN  /\ ~AnyRecent(c)
           /\ perm_less' = c.perm_less
           /\ perm_condition' = c.perm_condition
           /\ borrow' = c.borrow
           /\ owned' = c.owned
           /\ set' = Classify(Complete(c.borrow), Complete(c.owned))
    /\ kpc' = "done"
    /\ UNCHANGED <<perm_less_base, perm_less_if_base, rounds, pending,
                   reordered>>
    /\ UNCHANGED <<rvars, qvars, tvars>>

KNext == LoopBody \/ LoopExit

SpecKind == KInit /\ [][KNext]_vars

\* inference() is a sequential function: once called it keeps running
SpecKindLive == SpecKind /\ WF_vars(KNext)

----------------------------------------------------------------------------
(* inference() with the three from_join statements of the loop body taken  *)
(* one at a time and in any order, a new order in every pass               *)

\* a from_join whose tuples skip to_add and land in recent at once
FromJoin_IntoRecent(st, r) ==
    IF r = 1
    THEN [st EXCEPT !.perm_less.recent =
              @ \cup RulePermLess(st.perm_condition, st.borrow)]
    ELSE IF r = 2
    THEN [st EXCEPT !.borrow.recent = @ \cup RuleBorrow(st.perm_less, st.borrow)]
    ELSE [st EXCEPT !.owned.recent = @ \cup RuleOwned(st.perm_less, st.owned)]

\* the variables after statement r of the body has run on st
\* (1: lines 59-61, 2: line 64, 3: line 67)
FromJoin(st, r) ==
    IF r = 1
    THEN [st EXCEPT !.perm_less =
              Insert(@, RulePermLess(st.perm_condition, st.borrow))]
    ELSE IF r = 2
    THEN [st EXCEPT !.borrow = Insert(@, RuleBorrow(st.perm_less, st.borrow))]
    ELSE [st EXCEPT !.owned = Insert(@, RuleOwned(st.perm_less, st.owned))]

\* `while iteration.changed()` is true: the body is entered
IterationChanged ==
    /\ kpc = "loop" /\ pending = {}
    /\ LET c == Changed(KState)
       IN  /\ AnyRecent(c)
           /\ perm_less' = c.perm_less
           /\ perm_condition' = c.perm_condition
           /\ borrow' = c.borrow
           /\ owned' = c.owned
    /\ pending' = {1, 2, 3}
    /\ rounds' = IF rounds < MaxRounds THEN rounds + 1 ELSE rounds
    /\ UNCHANGED <<perm_less_base, perm_less_if_base, set, kpc, reordered>>
    /\ UNCHANGED <<rvars, qvars, tvars>>

\* one of the statements still to run in this pass runs
FromJoinStep ==
    /\ kpc = "loop"
    /\ \E r \in pending :
          /\ LET n == FromJoin(KState, r)
             IN  /\ perm_less' = n.perm_less
                 /\ perm_condition' = n.perm_condition
                 /\ borrow' = n.borrow
                 /\ owned' = n.owned
          /\ pending' = pending \ {r}
          /\ reordered' = (reordered \/ \E q \in pending : q < r)
    /\ UNCHANGED <<perm_less_base, perm_less_if_base, set, kpc, rounds>>
    /\ UNCHANGED <<rvars, qvars, tvars>>

ONext == IterationChanged \/ FromJoinStep \/ LoopExit

SpecKindOrder == KInit /\ [][ONext]_vars

----------------------------------------------------------------------------
(* Properties of inference() *)

KDone == kpc = "done"

FinalBorrow == { t[1] : t \in Complete(borrow) }
FinalOwned == { t[1] : t \in Complete(owned) }

\* what the engine concluded about a permission: the returned map for an
\* inferred variable, the final relation for a Known or Placeholder one
\* (those are not in the map)
IsOwn(p) ==
    IF p \in PermVar THEN p \in DOMAIN set /\ set[p] = "Own"
    ELSE p \in FinalOwned

IsAtLeastBorrow(p) ==
    IF p \in PermVar THEN p \in DOMAIN set /\ set[p] \in {"Borrow", "Own"}
    ELSE p \in FinalBorrow

\* C1: in the result of inference(), along every edge Pa <= Pb of
\* perm_less_base, Pa Own implies Pb Own and Pa at-least-Borrow implies Pb
\* at-least-Borrow.
C1_Monotone ==
    KDone =>
        \A e \in perm_less_base :
            /\ IsOwn(e[1]) => IsOwn(e[2])
            /\ IsAtLeastBorrow(e[1]) => IsAtLeastBorrow(e[2])

\* an edge between two different inferred variables, both classified Own
C1_Witness ==
    /\ KDone
    /\ \E e \in perm_less_base :
          /\ e[1] \in PermVar /\ e[2] \in PermVar /\ e[1] # e[2]
          /\ IsOwn(e[1]) /\ IsOwn(e[2])

\* the edges in force: the unconditional ones and the conditional ones whose
\* guard is in the given set
ActiveEdges(base, cond, guards) ==
    base \cup { <<t[2], t[3]>> : t \in { u \in cond : u[1] \in guards } }

AllTuples(v) == v.stable \cup v.recent \cup v.to_add

\* C2: perm_less holds a conditional edge (Pa, Pb) only once its guard Pc is
\* in borrow; and a conditional edge whose guard never gets into borrow
\* changes nothing in the returned map.
C2_Gated ==
    /\ AllTuples(perm_less) \subseteq
          ActiveEdges(perm_less_base, perm_less_if_base,
                      { t[1] : t \in borrow.stable \cup borrow.recent })
    /\ KDone =>
          \A t \in perm_less_if_base :
              t[1] \notin FinalBorrow =>
                  set = inference(perm_less_base, perm_less_if_base \ {t})

\* a conditional edge from Own whose guard is never proven: its target stays
\* unclassified
C2_Witness ==
    /\ KDone
    /\ \E t \in perm_less_if_base :
          /\ t[1] \notin FinalBorrow
          /\ t[2] = perm_own
          /\ t[3] \in PermVar
          /\ t[3] \notin DOMAIN set
          /\ <<t[2], t[3]>> \notin AllTuples(perm_less)

RECURSIVE ReachSet(_, _)
ReachSet(S, E) ==
    LET n == S \cup { e[2] : e \in { f \in E : f[1] \in S } }
    IN  IF n = S THEN S ELSE ReachSet(n, E)

\* C3: every inferred variable on a chain of edges (unconditional, or
\* conditional with an active guard) starting at the known constant Own is
\* classified Own in the returned map.
C3_OwnChain ==
    KDone =>
        \A v \in PermVar :
            v \in ReachSet({perm_own},
                    ActiveEdges(perm_less_base, perm_less_if_base, FinalBorrow))
                => v \in DOMAIN set /\ set[v] = "Own"

\* Own <= P1 <= P2 as two unconditional facts, both variables Own
C3_Witness ==
    /\ KDone
    /\ \E a, b \in PermVar :
          /\ a # b
          /\ perm_less_base = { <<perm_own, a>>, <<a, b>> }
          /\ set[a] = "Own" /\ set[b] = "Own"

\* C4: the map holds Own for a variable of the final owned relation, Borrow
\* for one in borrow but not in owned, and no entry otherwise.
C4_OwnWins ==
    KDone =>
        \A v \in PermVar :
            /\ v \in FinalOwned => v \in DOMAIN set /\ set[v] = "Own"
            /\ v \in FinalBorrow \ FinalOwned =>
                  v \in DOMAIN set /\ set[v] = "Borrow"
            /\ v \notin FinalBorrow \cup FinalOwned => v \notin DOMAIN set

\* one variable in both relations and reported Own, another in borrow only
C4_Witness ==
    /\ KDone
    /\ \E a, b \in PermVar :
          /\ a \in FinalOwned \cap FinalBorrow /\ set[a] = "Own"
          /\ b \in FinalBorrow \ FinalOwned /\ set[b] = "Borrow"

\* C5: every key of the returned map is an inferred permission variable.
C5_OnlyInferred ==
    KDone => \A k \in DOMAIN set : k \in PermVar /\ untern(k).tag = "Inferred"

\* a Placeholder entered the owned relation as an edge target and passed
\* ownership on to an inferred variable; only the variable is in the map
C5_Witness ==
    /\ KDone
    /\ perm_placeholder \in FinalOwned
    /\ \E v \in PermVar :
          /\ <<perm_placeholder, v>> \in perm_less_base
          /\ DOMAIN set = {v}

\* nothing is left to join: the loop test has found no recent tuple
Settled(v) == v.recent = {} /\ v.to_add = {}

Quiescent ==
    /\ Settled(perm_less) /\ Settled(perm_condition)
    /\ Settled(borrow) /\ Settled(owned)

\* C12: for every fact set inference() reaches its return, after fewer
\* than MaxRounds passes, with no tuple left to add to any relation.
C12_Terminates ==
    /\ <>KDone
    /\ [](KDone => Quiescent)
    /\ [](rounds < MaxRounds)

\* a returned run over a conditional edge guarded by its own target, which
\* an unconditional fact makes Own, so that the loop joined the cyclic edge
C12_Witness ==
    /\ KDone
    /\ \E a \in PermVar :
          /\ perm_less_base = { <<perm_own, a>> }
          /\ perm_less_if_base = { <<a, a, a>> }
          /\ <<a, a>> \in Complete(perm_less)
          /\ a \in DOMAIN set /\ set[a] = "Own"
    /\ rounds >= 3

Visible(v) == v.stable \cup v.recent

\* C15: no step of inference() takes a tuple out of perm_less, borrow or
\* owned, and the seeds (the base facts, Borrow and Own in borrow, Own in
\* owned) are in their relation after every step.
C15_OnlyAdds ==
    [][ /\ AllTuples(perm_less) \subseteq AllTuples(perm_less')
        /\ AllTuples(borrow) \subseteq AllTuples(borrow')
        /\ AllTuples(owned) \subseteq AllTuples(owned')
        /\ Visible(perm_less) \subseteq Visible(perm_less')
        /\ Visible(borrow) \subseteq Visible(borrow')
        /\ Visible(owned) \subseteq Visible(owned')
        /\ perm_less_base \subseteq Visible(perm_less')
        /\ { <<perm_borrow, <<>>>>, <<perm_own, <<>>>> }
              \subseteq Visible(borrow')
        /\ <<perm_own, <<>>>> \in Visible(owned')
      ]_vars

\* the relations have grown over several passes: an activated conditional
\* edge next to the base facts, a derived variable next to the seeds
C15_Witness ==
    /\ KDone
    /\ rounds >= 3
    /\ perm_less_base # {}
    /\ Complete(perm_less) \ perm_less_base # {}
    /\ perm_less_base \subseteq Complete(perm_less)
    /\ {perm_borrow, perm_own} \subseteq FinalBorrow
    /\ FinalBorrow \cap PermVar # {}

\* the permissions some fact names as the target of an edge
EdgeTargets ==
    { e[2] : e \in perm_less_base } \cup { t[3] : t \in perm_less_if_base }

\* C16: an inferred variable has no entry in the returned map exactly when
\* it is in neither final relation; a variable that no fact names, or that
\* facts name only as a source or a guard, has no entry.
C16_ShareByAbsence ==
    KDone =>
        \A v \in PermVar :
            /\ v \notin DOMAIN set <=> v \notin FinalBorrow \cup FinalOwned
            /\ v \notin EdgeTargets => v \notin DOMAIN set

\* a variable that is only the source of an edge stays without an entry
\* while the target of that edge is classified Own by another fact
C16_Witness ==
    /\ KDone
    /\ \E a, b \in PermVar :
          /\ a # b
          /\ perm_less_base = { <<a, b>>, <<perm_own, b>> }
          /\ a \notin DOMAIN set
          /\ b \in DOMAIN set /\ set[b] = "Own"

\* C17: at the return of inference() every permission of the final owned
\* relation is in the final borrow relation.
C17_OwnedInBorrow == KDone => FinalOwned \subseteq FinalBorrow

\* owned holds the constant Own, a placeholder and an inferred variable, and
\* borrow holds more than owned
C17_Witness ==
    /\ KDone
    /\ perm_placeholder \in FinalOwned
    /\ FinalOwned \cap PermVar # {}
    /\ FinalOwned # FinalBorrow

\* the least relations closed under the facts, computed by plain iteration
\* from the seeds: B for at-least-borrow, O for owned
RECURSIVE LeastClosure(_, _, _, _)
LeastClosure(base, cond, B, O) ==
    LET E == ActiveEdges(base, cond, B)
        nB == B \cup { e[2] : e \in { f \in E : f[1] \in B } }
        nO == O \cup { e[2] : e \in { f \in E : f[1] \in O } }
    IN  IF nB = B /\ nO = O THEN [borrow |-> B, owned |-> O]
        ELSE LeastClosure(base, cond, nB, nO)

\* C18: the final relations hold nothing beyond what a chain of activated
\* edges from the constants derives: a variable is Own in the map only if
\* such a chain leads to it from Own, and has an entry only if one leads to
\* it from Borrow or Own.
C18_Minimal ==
    KDone =>
        LET L == LeastClosure(perm_less_base, perm_less_if_base,
                              {perm_borrow, perm_own}, {perm_own})
        IN  /\ FinalBorrow \subseteq L.borrow
            /\ FinalOwned \subseteq L.owned
            /\ \A v \in DOMAIN set :
                  /\ v \in L.borrow
                  /\ set[v] = "Own" => v \in L.owned

\* an edge a <= b whose target b is Borrow by another fact: the source a
\* gets nothing from it
C18_Witness ==
    /\ KDone
    /\ \E a, b \in PermVar :
          /\ a # b
          /\ perm_less_base = { <<a, b>>, <<perm_borrow, b>> }
          /\ DOMAIN set = {b}
          /\ set[b] = "Borrow"

RECURSIVE SortedSeq(_)
SortedSeq(S) ==
    IF S = {} THEN <<>>
    ELSE LET m == CHOOSE x \in S : \A y \in S : x <= y
         IN  <<m>> \o SortedSeq(S \ {m})

\* the order of the keys in the returned FxIndexMap: the variables of borrow
\* as the sorted relation lists them, then those of owned not yet in the map
KeyOrder(borrowRel, ownedRel) ==
    LET b == { pr[1] : pr \in FilterMap(borrowRel, "Borrow") }
        o == { pr[1] : pr \in FilterMap(ownedRel, "Own") }
    IN  SortedSeq(b) \o SortedSeq(o \ b)

\* C11: whatever order the three rules are run in, in each pass, the map
\* returned (entries and key order) is the one the loop as written returns
\* for the same facts; so two runs on the same facts return identical maps.
C11_OrderIndependent ==
    KDone =>
        LET f == RunLoop(Seed(perm_less_base, perm_less_if_base))
        IN  /\ set = inference(perm_less_base, perm_less_if_base)
            /\ KeyOrder(Complete(borrow), Complete(owned))
                  = KeyOrder(Complete(f.borrow), Complete(f.owned))

\* a run that did not follow the written order and classified one variable
\* Own through a conditional edge and another one Borrow
C11_Witness ==
    /\ KDone
    /\ reordered
    /\ perm_less_base = {}
    /\ \E a, b \in DOMAIN set : set[a] = "Own" /\ set[b] = "Borrow"

----------------------------------------------------------------------------
(* TypeCheckResults driven by any sequence of calls *)

KIdle ==
    /\ perm_less_base = {}
    /\ perm_less_if_base = {}
    /\ perm_less = NewVariable
    /\ perm_condition = NewVariable
    /\ borrow = NewVariable
    /\ owned = NewVariable
    /\ set = EmptyMap
    /\ kpc = "idle"
    /\ rounds = 0
    /\ pending = {}
    /\ reordered = FALSE

RInit == RDefault /\ NoCall /\ KIdle /\ TIdle

RecordEntity ==
    /\ \E index \in Identifier, entity \in Entity :
          /\ record_entity(index, entity)
          /\ Called("record_entity", index, "unit")
    /\ UNCHANGED <<kvars, tvars>>

RecordTy ==
    /\ \E index \in MetaIndex, t \in Ty :
          /\ record_ty(index, t)
          /\ Called("record_ty", index, "unit")
    /\ UNCHANGED <<kvars, tvars>>

RecordError ==
    /\ Len(errors) < MaxErrors
    /\ \E location \in MetaIndex :
          /\ record_error(location)
          /\ Called("record_error", location, "unit")
    /\ UNCHANGED <<kvars, tvars>>

\* ty(index) takes &self: it returns or panics and the results stay as
\* they are
LookupTy ==
    /\ \E index \in MetaIndex : Called("ty", index, ty(index))
    /\ UNCHANGED <<rvars, kvars, tvars>>

RNext == RecordEntity \/ RecordTy \/ RecordError \/ LookupTy

SpecResults == RInit /\ [][RNext]_vars

\* C6: the type first recorded for a node is never lost or replaced by a
\* later record_ty, record_entity or record_error call.
C6_SetOnce ==
    [][\A n \in DOMAIN types : n \in DOMAIN types' /\ types'[n] = types[n]]_vars

\* C13: ty(node) returns the type recorded for node when there is one and
\* panics, returning no type, when there is none; the call changes none of
\* types, entities and errors.
C13_TyLookup ==
    [][ call'.op = "ty" =>
          /\ call'.index \in DOMAIN types => call'.out = types[call'.index]
          /\ call'.index \notin DOMAIN types => call'.out = "panic"
          /\ UNCHANGED rvars
      ]_vars

\* a lookup of a node that was never recorded, made while another node has
\* a type, has panicked
C13_Witness ==
    /\ call.op = "ty"
    /\ call.out = "panic"
    /\ call.index \notin DOMAIN types
    /\ types # <<>>

\* C19: record_error(location) appends one error with that location to the
\* end of the list, keeps the earlier errors where they were and leaves
\* types and entities alone; record_ty and record_entity leave the list
\* alone.
C19_ErrorFrame ==
    [][ /\ call'.op = "record_error" =>
              /\ errors' = Append(errors, [location |-> call'.index])
              /\ types' = types /\ entities' = entities
        /\ call'.op \in {"record_ty", "record_entity", "ty"} =>
              errors' = errors
      ]_vars

\* two errors at different nodes are in the list in the order of the
\* calls, the last call was the second of them, a type and an entity are
\* recorded
C19_Witness ==
    /\ Len(errors) = 2
    /\ errors[1].location # errors[2].location
    /\ call.op = "record_error" /\ call.index = errors[2].location
    /\ types # <<>> /\ entities # <<>>

----------------------------------------------------------------------------
(* A type-check session: at each node of the function body the walk        *)
(* allocates variables, equates types and suspends operations, then checks *)
(* the node (a literal, an if expression, or a check left to a suspended   *)
(* operation) and moves on; a resolution makes the blocked operations      *)
(* ready and they run before the walk goes on.                             *)

\* the pairs of types the walk equates: two variables, or a variable and a
\* Known type
OperandPairs ==
    { <<TyVar(a), TyVar(b)>> : a \in Allocated, b \in Allocated }
        \cup { <<TyVar(a), TyKnown(k)>> : a \in Allocated, k \in BaseKnown }

Unresolved == { v \in Allocated : resolve(v) = "None" }

TInit ==
    /\ nvars = 0
    /\ parent = [ v \in InferVar |-> v ]
    /\ value = [ v \in InferVar |-> "None" ]
    /\ nops = 0
    /\ ops_arena = <<>>
    /\ ops_blocked = [ v \in InferVar |-> <<>> ]
    /\ ready = <<>>
    /\ tpc = "walk"
    /\ cur = 1
    /\ checked = <<>>
    /\ dropped = {}
    /\ invoked = <<>>
    /\ unified = {}
    /\ RDefault
    /\ NoCall
    /\ KIdle

\* the walk is at a node and no ready operation is waiting to run
Walking == tpc = "walk" /\ ready = <<>> /\ cur <= NumNodes

\* the errors list of the model has room for one more error of the walk:
\* a place is kept for each suspended requirement, which may fail when it
\* runs
ErrorRoom ==
    Len(errors) + Cardinality({ i \in DOMAIN ops_arena : ~ops_arena[i].assigns })
        < MaxErrors

\* new_variable(): a fresh unresolved slot
new_variable ==
    /\ Walking
    /\ nvars < MaxVars /\ nvars + nops < MaxAlloc
    /\ nvars' = nvars + 1
    /\ UNCHANGED <<parent, value, nops, ops_arena, ops_blocked, ready, tpc,
                   cur, checked, dropped, invoked, unified>>
    /\ UNCHANGED <<kvars, rvars, qvars>>

\* suspend(blocking_vars, op): op goes into the arena and its index onto
\* the blocked list of each blocking variable.  `assigns` tells whether op is
\* the check of its node, which assigns the node its type when it runs, or
\* a further requirement on the types.
suspend(vs, node, assigns) ==
    /\ nops' = nops + 1
    /\ ops_arena' = MapInsert(ops_arena, nops + 1,
          [ blocked_on |-> vs, node |-> node, assigns |-> assigns ])
    /\ ops_blocked' = [ v \in InferVar |->
          IF v \in vs THEN Append(ops_blocked[v], nops + 1)
          ELSE ops_blocked[v] ]

\* the walk suspends a requirement at the node it is at
Suspend ==
    /\ Walking
    /\ nops < MaxOps /\ nvars + nops < MaxAlloc
    /\ ErrorRoom
    /\ \E vs \in (SUBSET Unresolved) \ {{}} : suspend(vs, cur, FALSE)
    /\ UNCHANGED <<nvars, parent, value, ready, tpc, cur, checked, dropped,
                   invoked, unified>>
    /\ UNCHANGED <<kvars, rvars, qvars>>

\* equate_types(cause, x, y) with `queue` the ready operations still waiting:
\* unify, make ready what a resolution unblocks, record an error on mismatch
equate_types(cause, x, y, queue) ==
    LET r == unify(parent, value, x, y)
        newly == { w \in Allocated :
                     /\ resolve(w) = "None"
                     /\ resolveIn(r.parent, r.value, w) # "None" }
    IN  /\ parent' = r.parent
        /\ value' = r.value
        /\ ready' = queue \o Triggered(newly, ops_blocked)
        /\ ops_blocked' = [ w \in InferVar |->
              IF w \in newly THEN <<>> ELSE ops_blocked[w] ]
        /\ IF r.ok
           THEN /\ UNCHANGED rvars
                /\ unified' = IF ~x.known /\ ~y.known /\ x.var # y.var
                              THEN unified \cup {{x.var, y.var}} ELSE unified
           ELSE /\ record_error(cause)
                /\ UNCHANGED unified

\* the walk equates two types at some node
EquateTypes ==
    /\ Walking
    /\ \E pr \in OperandPairs :
          /\ unify(parent, value, pr[1], pr[2]).ok \/ ErrorRoom
          /\ equate_types(cur, pr[1], pr[2], <<>>)
    /\ UNCHANGED <<nvars, nops, ops_arena, tpc, cur, checked, dropped,
                   invoked>>
    /\ UNCHANGED <<kvars, qvars>>

\* the scheduler takes the next ready operation; one already consumed is
\* skipped, a live one is removed from the arena and invoked.  An invoked
\* operation that is the check of its node records the resolved type at
\* the node; another one goes on to require some variable to be the
\* boolean type, which unifies again.
RunReady ==
    /\ tpc = "walk" /\ ready # <<>>
    /\ LET nx == NextReady(ready)
           e == nx.entry
       IN  IF ~IsLive(ops_arena, e.op)
           THEN /\ ready' = nx.rest
                /\ UNCHANGED <<parent, value, ops_arena, ops_blocked, invoked,
                               unified>>
                /\ UNCHANGED rvars
           ELSE LET op == ops_arena[e.op]
                IN  /\ ops_arena' = ArenaRemove(ops_arena, e.op)
                    /\ invoked' = Append(invoked,
                          [ op |-> e.op, var |-> e.var,
                            blocked_on |-> op.blocked_on ])
                    /\ IF op.assigns
                       THEN /\ record_ty(op.node, resolve(e.var))
                            /\ ready' = nx.rest
                            /\ UNCHANGED <<parent, value, ops_blocked,
                                           unified>>
                       ELSE \E target \in Allocated :
                               equate_types(op.node, TyVar(target),
                                            TyKnown("Bool"), nx.rest)
    /\ UNCHANGED <<nvars, nops, tpc, cur, checked, dropped>>
    /\ UNCHANGED <<kvars, qvars>>

\* the literals of the bodies walked are boolean literals
LiteralTypes == {"Bool"}

\* the arms of the if expressions walked: `if c { 1 } else { true }` and
\* `if c { true } else { true }`
IfArms == { <<t, "Bool">> : t \in BaseKnown }

\* a leaf of the body (a literal): its type is recorded at once and the
\* walk moves on
CheckLiteral ==
    /\ Walking
    /\ \E k \in LiteralTypes : record_ty(cur, k)
    /\ checked' = MapInsert(checked, cur, "typed")
    /\ cur' = cur + 1
    /\ UNCHANGED <<nvars, parent, value, nops, ops_arena, ops_blocked, ready,
                   tpc, dropped, invoked, unified>>
    /\ UNCHANGED <<kvars, qvars>>

\* an if expression whose arms have the types <<true_ty, false_ty>>: it gets
\* their least upper bound; without one, record_error at the if expression
\* and record_ty of the error sentinel
CheckIf ==
    /\ Walking
    /\ \E arms \in IfArms :
          LET r == least_upper_bound(arms[1], arms[2])
          IN  /\ r.ok \/ ErrorRoom
              /\ errors' = IF r.ok THEN errors
                           ELSE Append(errors, [location |-> cur])
              /\ types' = MapInsert(types, cur, r.ty)
              /\ checked' = MapInsert(checked, cur,
                                IF r.ok THEN "typed" ELSE "if_err")
    /\ cur' = cur + 1
    /\ UNCHANGED entities
    /\ UNCHANGED <<nvars, parent, value, nops, ops_arena, ops_blocked, ready,
                   tpc, dropped, invoked, unified>>
    /\ UNCHANGED <<kvars, qvars>>

\* a node whose type is still pending: its check is suspended on the
\* variables it waits for and the walk moves on
CheckDeferred ==
    /\ Walking
    /\ nops < MaxOps /\ nvars + nops < MaxAlloc
    /\ \E vs \in (SUBSET Unresolved) \ {{}} : suspend(vs, cur, TRUE)
    /\ checked' = MapInsert(checked, cur, "deferred")
    /\ cur' = cur + 1
    /\ UNCHANGED <<nvars, parent, value, ready, tpc, dropped, invoked,
                   unified>>
    /\ UNCHANGED <<kvars, rvars, qvars>>

\* a session end that waits for the arena to be empty
EndSession_WaitsForOps ==
    /\ tpc = "walk" /\ ready = <<>>
    /\ cur = NumNodes + 1
    /\ ops_arena = <<>>
    /\ tpc' = "done"
    /\ UNCHANGED <<nvars, parent, value, nops, ops_arena, ops_blocked, ready,
                   cur, checked, dropped, invoked, unified>>
    /\ UNCHANGED <<kvars, rvars, qvars>>

\* the walk has finished and nothing is ready: the session ends and the
\* operations still blocked are dropped with the TypeChecker, not invoked
EndSession ==
    /\ tpc = "walk" /\ ready = <<>>
    /\ cur = NumNodes + 1
    /\ tpc' = "done"
    /\ dropped' = { [ op |-> i, node |-> ops_arena[i].node,
                      assigns |-> ops_arena[i].assigns ] :
                      i \in DOMAIN ops_arena }
    /\ ops_arena' = <<>>
    /\ ops_blocked' = [ v \in InferVar |-> <<>> ]
    /\ UNCHANGED <<nvars, parent, value, nops, ready, cur, checked, invoked,
                   unified>>
    /\ UNCHANGED <<kvars, rvars, qvars>>

TNext ==
    \/ new_variable \/ Suspend \/ EquateTypes \/ RunReady
    \/ CheckLiteral \/ CheckIf \/ CheckDeferred \/ EndSession

SpecSession == TInit /\ [][TNext]_vars

\* the checker is single-threaded and keeps running until the session ends
SpecSessionLive == SpecSession /\ WF_vars(TNext)

----------------------------------------------------------------------------
(* Properties of a type-check session *)

Resolved(v) == resolve(v) # "None"

\* C7 as stated: an operation is invoked at most once and never before every
\* variable it was suspended on is resolved.
C7_NeverBeforeAnyOfItsVars ==
    \A i \in DOMAIN invoked :
        /\ \A j \in DOMAIN invoked : invoked[i].op = invoked[j].op => i = j
        /\ \A v \in invoked[i].blocked_on : Resolved(v)

\* C7, amended: an operation is invoked at most once, only by the resolution
\* of a variable it was suspended on, and is then out of the arena for good;
\* once nothing is ready, an operation still in the arena has none of its
\* variables resolved (so an operation with a resolved variable has run
\* exactly once).
C7_OnceAfterResolution ==
    /\ \A i \in DOMAIN invoked :
          /\ \A j \in DOMAIN invoked : invoked[i].op = invoked[j].op => i = j
          /\ invoked[i].var \in invoked[i].blocked_on
          /\ Resolved(invoked[i].var)
          /\ invoked[i].op \notin DOMAIN ops_arena
    /\ ready = <<>> =>
          \A idx \in DOMAIN ops_arena :
              \A v \in ops_arena[idx].blocked_on : ~Resolved(v)

\* an operation suspended on two variables has run once, both variables are
\* resolved by now and the scheduler has gone through everything made ready
C7_Witness ==
    /\ ready = <<>>
    /\ \E i \in DOMAIN invoked :
          /\ Cardinality(invoked[i].blocked_on) = 2
          /\ \A v \in invoked[i].blocked_on : Resolved(v)

\* C8: after unify(a, b) succeeded, resolve(a) = resolve(b) in every later
\* state, so a value given to one variable of a class is the value of all.
C8_UnionFindSound ==
    \A pr \in unified : \A a \in pr, b \in pr : resolve(a) = resolve(b)

\* three variables unified in a chain and resolved
C8_Witness ==
    /\ \E a, b, c \in Allocated :
          /\ a # c
          /\ {a, b} \in unified /\ {b, c} \in unified
          /\ {a, c} \notin unified
          /\ Resolved(a) /\ Resolved(c)

SameClasses(par1, par2) ==
    \A a \in InferVar, b \in InferVar :
        (Find(par1, a) = Find(par1, b)) <=> (Find(par2, a) = Find(par2, b))

\* C9: a step that records a type mismatch leaves the classes, every
\* variable's resolved value and the blocked lists as they were, and makes no
\* operation ready.
C9_MismatchNoMutation ==
    [][ Len(errors') > Len(errors) =>
          /\ SameClasses(parent, parent')
          /\ \A v \in InferVar : resolveIn(parent', value', v) = resolve(v)
          /\ ops_blocked' = ops_blocked
          /\ \/ ready' = ready
             \/ ready # <<>> /\ ready' = Tail(ready)
      ]_vars

\* a mismatch was recorded while an operation is blocked on an unresolved
\* variable unified with another one, and a third variable is resolved
C9_Witness ==
    /\ errors # <<>>
    /\ unified # {}
    /\ \E v \in Allocated : Resolved(v)
    /\ \E w \in Allocated : ~Resolved(w) /\ ops_blocked[w] # <<>>

PendingNodes ==
    { ops_arena[i].node : i \in { j \in DOMAIN ops_arena : ops_arena[j].assigns } }

\* the nodes whose check was dropped at the end of the session
DroppedNodes == { d.node : d \in { e \in dropped : e.assigns } }

IfErrors == { n \in DOMAIN checked : checked[n] = "if_err" }

C20_SessionCompletes ==
    /\ <>(tpc = "done")
    /\ []((tpc = "walk" /\ cur = NumNodes + 1 /\ ready = <<>>)
             => ENABLED EndSession)
    /\ [][ (tpc = "walk" /\ tpc' = "done") =>
              /\ UNCHANGED <<types, entities, errors, invoked>>
              /\ ops_arena' = <<>>
              /\ \A v \in InferVar : ops_blocked'[v] = <<>>
         ]_vars
    /\ [](\A d \in dropped :
             \A i \in DOMAIN invoked : invoked[i].op # d.op)

\* a finished session that dropped an operation blocked on a variable that
\* was never resolved, after an error had been recorded and another
\* operation had run
C20_Witness ==
    /\ tpc = "done"
    /\ dropped # {}
    /\ Unresolved # {}
    /\ errors # <<>>
    /\ invoked # <<>>

====
